---- MODULE Spec2Model ----
(***************************************************************************)
(* Model of the batch acquisition + checkpoint/resume engine of            *)
(* src/src/scraping/batch_scraper.py (class AdvancedPlayStoreScraper):     *)
(* load_checkpoint / save_checkpoint, log_error, scrape_app_safely,        *)
(* scrape_reviews_safely, discover_apps_by_categories, batch_scrape_apps,  *)
(* _save_batch, _make_serializable and merge_batches.                      *)
(*                                                                         *)
(* The durable state is the output directory: the checkpoint file, the     *)
(* batch files (named by the second in which they were written), the       *)
(* merged file and the error log.  A run of batch_scrape_apps is a         *)
(* sequence of steps, one per I/O operation, so that the process can be    *)
(* stopped between any two of them.  The wall clock is counted in whole    *)
(* seconds, the unit of the batch file names.                              *)
(***************************************************************************)
EXTENDS Integers, Sequences, FiniteSets, TLC

\* ---------------------------------------------------------------- bounds
NumIds == 3        \* a run is given the identifiers 1..n, n <= NumIds
MaxRuns == 2       \* invocations of batch_scrape_apps in one behaviour
MaxFetches == 3    \* detail fetches (scrape_app_safely calls) in one behaviour
MaxInterval == 2   \* save_interval is drawn from 1..MaxInterval
LongIds == 5       \* length of the identifier list of the single long run
MaxQueries == 2    \* category queries given to discover_apps_by_categories
MaxHits == 2       \* results one search() returns at most (n_hits)
NumFound == 2      \* distinct identifiers the searches can return

\* ------------------------------------------------------ program constants
\* scrape_app_safely(self, app_id, retries=3)
retries == 3
\* time.sleep(2 ** attempt)
backoff_base == 2
\* time.sleep(1.2): the whole seconds by which the clock is sure to advance
pacing_seconds == 1
\* time.sleep(1) after a successful search()
search_pause == 1

Ids == 1..(IF NumIds > LongIds THEN NumIds ELSE LongIds)

\* The identifier lists a run is given: duplicate-free (the list comes from
\* discover_apps_by_categories, list(set)).  Identifiers are opaque, so a
\* list of n of them is written 1..n.
IdList(n) == [i \in 1..n |-> i]
Inputs == { IdList(n) : n \in 0..NumIds }
LongInputs == { IdList(LongIds) }

\* What the upstream source does for one identifier: app() fails on the
\* first k invocations and succeeds from then on; k = retries is a source
\* that fails on every invocation scrape_app_safely can make.
Failures == 0..retries
\* the same without transient failures
Steady == {0, retries}

RECURSIVE Pow(_, _)
Pow(b, e) == IF e = 0 THEN 1 ELSE b * Pow(b, e - 1)

RECURSIVE Sum(_)
Sum(s) == IF s = << >> THEN 0 ELSE Head(s) + Sum(Tail(s))

Range(s) == { s[i] : i \in 1..Len(s) }

\* ---------------------------------------------------------------- records
\* A detail record as app() returns it: the identifier, and the review
\* list batch_scrape_apps attaches under 'scraped_reviews':
\*   "absent"  no such key (include_reviews off)
\*   "empty"   [] (scrape_reviews_safely caught a failure)
\*   "raw"     reviews as fetched, holding datetime objects
\*   "iso"     the same reviews after _make_serializable (datetimes as text)
Rec(id, rv) == [appId |-> id, scraped_reviews |-> rv]

\* scrape_app_safely's None
NoneRec == Rec(0, "None")
\* marks of the history: no terminal result yet, a terminal failure
Unknown == Rec(0, "?")
Failed == Rec(0, "fail")

\* load_checkpoint's default when no file exists
EmptyCheckpoint == [scraped_app_ids |-> {}, failed_app_ids |-> {}]

\* no concurrent read has happened
NotRead == [raised |-> FALSE, value |-> [scraped_app_ids |-> {0}, failed_app_ids |-> {}]]

VARIABLES
    \* the output directory and the clock
    now,            \* wall clock, whole seconds
    ckptFile,       \* scraping_checkpoint.json: [st, data]
    batches,        \* apps_batch_<timestamp>.json: timestamp -> [complete, data]
    merged,         \* apps_merged.json: [written, data]
    errorLog,       \* scraping_errors.log: sequence of messages
    \* the running batch_scrape_apps (locals of the frame)
    pc, app_ids, include_reviews, save_interval,
    checkpoint, scraped_ids, remaining_ids, idx, app_data,
    scraped_data, final, fname,
    \* observation (history) variables
    runs,           \* number of runs runs
    fetches,        \* number of scrape_app_safely calls so far
    rested,         \* the clock has moved on since the last run ended
    job,            \* the arguments of the first run: <<app_ids, include_reviews, save_interval>>
    loaded,         \* completed set the current / last run loaded
    fetched,        \* identifiers whose detail fetch this run invoked
    okIds,          \* identifiers whose detail fetch succeeded in this run
    exhausted,      \* identifiers whose detail fetch failed terminally in this run
    written,        \* names of the batch files this run wrote
    last,           \* the last scrape_app_safely call: [k, ret, calls, waits, logged]
    exit,           \* how the last run ended: "-", "noop", "done", "crash", "error"
    prev,           \* summary of the run before the current one
    result,         \* per identifier, the last terminal result of its fetch
    stable,         \* no identifier ever had two different terminal results
    atFlush,        \* the last step persisted the checkpoint of an in-loop flush
    cuts,           \* stops so far: "none", "afterflush" (all right after a flush), "other"
    observed,       \* what a concurrent load_checkpoint returned
    \* the running discover_apps_by_categories
    d_pc,           \* "idle", "search", "return", "returned"
    n_categories,   \* len(categories)
    qidx,           \* queries the loop has gone through
    all_app_ids,    \* the set the loop fills
    discovered,     \* the list discover_apps_by_categories returned
    \* observation of the discovery
    answered,       \* identifiers some successful search() returned
    repeated,       \* identifiers returned more than once
    failedQueries,  \* queries whose search() raised
    \* observation of the run
    reviewCalls,    \* reviews() invocations of the last scrape_reviews_safely
    aborted         \* the write that ended the run with its exception

disk == <<ckptFile, batches, merged, errorLog>>
frame == <<pc, app_ids, include_reviews, save_interval, checkpoint, scraped_ids,
           remaining_ids, idx, app_data, scraped_data, final, fname>>
hist == <<runs, fetches, rested, job, loaded, fetched, okIds, exhausted, written,
          last, exit, prev>>
resume == <<result, stable, atFlush, cuts>>
discovery == <<d_pc, n_categories, qidx, all_app_ids, discovered, answered,
               repeated, failedQueries>>
vars == <<now, disk, frame, hist, resume, observed, discovery, reviewCalls, aborted>>

NoPrev == [exit |-> "-", exhausted |-> {}, completed |-> {}]
\* no write has raised
NoAbort == [at |-> "-", unwritten |-> {}]
NoCall == [k |-> 0, ret |-> NoneRec, calls |-> 0, waits |-> << >>, logged |-> FALSE]

Init ==
    /\ now = 0
    /\ ckptFile = [st |-> "absent", data |-> EmptyCheckpoint]
    /\ batches = << >>
    /\ merged = [written |-> FALSE, data |-> << >>]
    /\ errorLog = << >>
    /\ pc = "idle"
    /\ app_ids = << >>
    /\ include_reviews = FALSE
    /\ save_interval = 1
    /\ checkpoint = EmptyCheckpoint
    /\ scraped_ids = {}
    /\ remaining_ids = << >>
    /\ idx = 0
    /\ app_data = NoneRec
    /\ scraped_data = << >>
    /\ final = FALSE
    /\ fname = 0
    /\ runs = 0
    /\ fetches = 0
    /\ rested = FALSE
    /\ job = <<IdList(0), FALSE, 1>>
    /\ loaded = {}
    /\ fetched = {}
    /\ okIds = {}
    /\ exhausted = {}
    /\ written = {}
    /\ last = NoCall
    /\ exit = "-"
    /\ prev = NoPrev
    /\ result = [i \in Ids |-> Unknown]
    /\ stable = TRUE
    /\ atFlush = FALSE
    /\ cuts = "none"
    /\ observed = NotRead
    /\ d_pc = "idle"
    /\ n_categories = 0
    /\ qidx = 0
    /\ all_app_ids = {}
    /\ discovered = << >>
    /\ answered = {}
    /\ repeated = {}
    /\ failedQueries = {}
    /\ reviewCalls = 0
    /\ aborted = NoAbort

\* ------------------------------------------------------------- operators
\* load_checkpoint: the parsed file, the default when there is none, and
\* json.load's exception on a file that holds no complete JSON document.
load_checkpoint(file) ==
    IF file.st = "absent" THEN [raised |-> FALSE, value |-> EmptyCheckpoint]
    ELSE IF file.st = "complete" THEN [raised |-> FALSE, value |-> file.data]
    ELSE [raised |-> TRUE, value |-> EmptyCheckpoint]

\* Mutant of RemainingIds: the filter on the completed set is lost.
RemainingIdsUnfiltered(ids, scraped) == ids

\* remaining_ids = [aid for aid in app_ids if aid not in scraped_ids]
RemainingIds(ids, scraped) == SelectSeq(ids, LAMBDA aid : aid \notin scraped)

\* for attempt in range(retries)
InRange(a) == a < retries

\* Mutant of IsLastAttempt: off by one, the last attempt is not recognised.
IsLastAttemptOffByOne(a) == a = retries

\* if attempt == retries - 1
IsLastAttempt(a) == a = retries - 1

\* Mutant of BackoffDelay: the exponent counts the attempts from 1.
BackoffDelayFromOne(a) == Pow(backoff_base, a + 1)

\* time.sleep(2 ** attempt)
BackoffDelay(a) == Pow(backoff_base, a)

\* app(app_id, ...) on its n-th invocation, for a source that fails k times
AppSucceeds(k, n) == n > k

RECURSIVE ScrapeLoop(_, _, _, _, _)
\* The loop of scrape_app_safely from attempt a on, after `calls`
\* invocations and the sleeps `waits`.
ScrapeLoop(app_id, k, a, calls, waits) ==
    IF ~InRange(a)
    THEN [k |-> k, ret |-> NoneRec, calls |-> calls, waits |-> waits, logged |-> FALSE]
    ELSE IF AppSucceeds(k, calls + 1)
    THEN [k |-> k, ret |-> Rec(app_id, "absent"), calls |-> calls + 1,
          waits |-> waits, logged |-> FALSE]
    ELSE IF IsLastAttempt(a)
    THEN [k |-> k, ret |-> NoneRec, calls |-> calls + 1, waits |-> waits,
          logged |-> TRUE]
    ELSE ScrapeLoop(app_id, k, a + 1, calls + 1, Append(waits, BackoffDelay(a)))

\* scrape_app_safely(app_id) against a source that fails k times
scrape_app_safely(app_id, k) == ScrapeLoop(app_id, k, 0, 0, << >>)

\* if (idx + 1) % save_interval == 0
ShouldSave(i, si) == (i + 1) % si = 0

\* Mutant of HasRemainder: the flush after the loop is skipped.
HasRemainderNever(data) == FALSE

\* if scraped_data: (the flush after the loop)
HasRemainder(data) == data # << >>

\* timestamp = datetime.now().strftime('%Y%m%d_%H%M%S'): the name of a
\* batch file is the second in which _save_batch runs.
BatchName(t) == t

\* _make_serializable on one record: datetime values become ISO text, all
\* else is kept.
MakeSerializableRec(r) ==
    IF r.scraped_reviews = "raw" THEN [r EXCEPT !.scraped_reviews = "iso"] ELSE r

\* _make_serializable on a list
MakeSerializable(data) == [i \in 1..Len(data) |-> MakeSerializableRec(data[i])]

\* log_error appends one line; the line is kept as (kind, identifier)
LogLine(kind, id) == <<kind, id>>

\* open(path, 'w') on a batch file: creates or truncates it
OpenBatch(files, name) ==
    [n \in DOMAIN files \cup {name} |->
        IF n = name THEN [complete |-> FALSE, data |-> << >>] ELSE files[n]]

\* json.dump into the opened batch file, then close
DumpBatch(files, name, data) ==
    [files EXCEPT ![name] = [complete |-> TRUE, data |-> data]]

\* what save_checkpoint is given: checkpoint['scraped_app_ids'] =
\* list(scraped_ids); nothing else of the checkpoint is ever assigned
UpdatedCheckpoint(cp, scraped) == [cp EXCEPT !.scraped_app_ids = scraped]

IdleFrame ==
    /\ pc' = "idle"
    /\ app_ids' = << >>
    /\ include_reviews' = FALSE
    /\ save_interval' = 1
    /\ checkpoint' = EmptyCheckpoint
    /\ scraped_ids' = {}
    /\ remaining_ids' = << >>
    /\ idx' = 0
    /\ app_data' = NoneRec
    /\ scraped_data' = << >>
    /\ final' = FALSE
    /\ fname' = 0

\* The terminal result r of identifier id joins the history.
NoteResult(id, r) ==
    /\ result' = [result EXCEPT ![id] = r]
    /\ stable' = (stable /\ result[id] \in {Unknown, r})

\* ---------------------------------------------------------------- actions
\* batch_scrape_apps, lines 93-106: load the checkpoint, filter, return at
\* once when nothing remains.
StartRun(ids, reviews, interval) ==
    LET ld == load_checkpoint(ckptFile)
        cp == ld.value
        rem == RemainingIds(ids, cp.scraped_app_ids)
    IN  /\ pc = "idle"
        /\ runs' = runs + 1
        /\ job' = IF runs = 0 THEN <<ids, reviews, interval>> ELSE job
        /\ prev' = [exit |-> exit, exhausted |-> exhausted,
                    completed |-> ckptFile.data.scraped_app_ids]
        /\ fetched' = {}
        /\ okIds' = {}
        /\ exhausted' = {}
        /\ written' = {}
        /\ last' = NoCall
        /\ atFlush' = FALSE
        /\ UNCHANGED <<now, disk, observed, fetches, result, stable, cuts>>
        /\ UNCHANGED <<discovery, reviewCalls>>
        /\ aborted' = NoAbort
        /\ rested' = FALSE
        /\ IF ld.raised
           THEN \* json.load raises: the run ends with the exception
                /\ exit' = "error"
                /\ loaded' = {}
                /\ UNCHANGED frame
           ELSE /\ loaded' = cp.scraped_app_ids
                /\ IF rem = << >>
                   THEN /\ exit' = "noop"
                        /\ UNCHANGED frame
                   ELSE /\ exit' = "-"
                        /\ pc' = "fetch"
                        /\ app_ids' = ids
                        /\ include_reviews' = reviews
                        /\ save_interval' = interval
                        /\ checkpoint' = cp
                        /\ scraped_ids' = cp.scraped_app_ids
                        /\ remaining_ids' = rem
                        /\ idx' = 0
                        /\ app_data' = NoneRec
                        /\ scraped_data' = << >>
                        /\ final' = FALSE
                        /\ fname' = 0

\* The record of the current identifier joins the accumulator (lines
\* 119-127): append, add to scraped_ids, and go on to the periodic save when
\* the loop index says so.
Accumulate(rec) ==
    /\ scraped_data' = Append(scraped_data, rec)
    /\ scraped_ids' = scraped_ids \cup {rec.appId}
    /\ pc' = IF ShouldSave(idx, save_interval) THEN "batch_open" ELSE "pace"

\* Line 110, app_data = self.scrape_app_safely(app_id), against a source
\* that fails k times, and the test of line 112.  Without reviews a record
\* goes to the accumulator at once; a None goes straight to the pacing sleep.
FetchDetail(k) ==
    LET id == remaining_ids[idx + 1]
        r == scrape_app_safely(id, k)
    IN  /\ pc = "fetch"
        /\ last' = r
        /\ fetches' = fetches + 1
        /\ now' = now + Sum(r.waits)
        /\ errorLog' = IF r.logged THEN Append(errorLog, LogLine("scrape", id))
                       ELSE errorLog
        /\ fetched' = fetched \cup {id}
        /\ app_data' = r.ret
        /\ atFlush' = FALSE
        /\ UNCHANGED <<discovery, reviewCalls, aborted>>
        /\ UNCHANGED <<ckptFile, batches, merged, observed, runs, rested, job,
                       loaded, written, exit, prev, cuts,
                       app_ids, include_reviews, save_interval, checkpoint,
                       remaining_ids, idx, final, fname>>
        /\ IF r.ret # NoneRec
           THEN /\ okIds' = okIds \cup {id}
                /\ UNCHANGED exhausted
                /\ IF include_reviews
                   THEN /\ pc' = "reviews"
                        /\ UNCHANGED <<scraped_data, scraped_ids, result, stable>>
                   ELSE /\ Accumulate(r.ret)
                        /\ NoteResult(id, MakeSerializableRec(r.ret))
           ELSE /\ exhausted' = exhausted \cup {id}
                /\ pc' = "pace"
                /\ NoteResult(id, Failed)
                /\ UNCHANGED <<okIds, scraped_data, scraped_ids>>

\* scrape_reviews_safely (lines 55-63) and the attachment of its result
\* (lines 115-120): one call of reviews(); a failure is logged and gives [].
FetchReviews(ok) ==
    LET id == remaining_ids[idx + 1]
        rec == [app_data EXCEPT !.scraped_reviews = IF ok THEN "raw" ELSE "empty"]
    IN  /\ pc = "reviews"
        /\ app_data' = rec
        /\ errorLog' = IF ok THEN errorLog
                       ELSE Append(errorLog, LogLine("reviews", id))
        /\ Accumulate(rec)
        /\ NoteResult(id, MakeSerializableRec(rec))
        /\ atFlush' = FALSE
        /\ reviewCalls' = 1
        /\ UNCHANGED <<discovery, aborted>>
        /\ UNCHANGED <<now, ckptFile, batches, merged, observed, hist, cuts, app_ids, include_reviews, save_interval,
                       checkpoint, remaining_ids, idx, final, fname>>

\* _save_batch up to open(filepath, 'w') (lines 143-153): the file named by
\* the current second is created, or truncated when it exists.
BatchOpen ==
    /\ pc = "batch_open"
    /\ fname' = BatchName(now)
    /\ batches' = OpenBatch(batches, BatchName(now))
    /\ written' = written \cup {BatchName(now)}
    /\ pc' = "batch_write"
    /\ atFlush' = FALSE
    /\ UNCHANGED <<discovery, reviewCalls, aborted>>
    /\ UNCHANGED <<now, ckptFile, merged, errorLog, observed, runs, fetches, rested, job,
                   loaded, fetched, okIds, exhausted, last, exit, prev,
                   result, stable, cuts,
                   app_ids, include_reviews, save_interval, checkpoint, scraped_ids,
                   remaining_ids, idx, app_data, scraped_data, final>>

\* _save_batch, json.dump of the serializable data and close (line 154)
BatchWrite ==
    /\ pc = "batch_write"
    /\ batches' = DumpBatch(batches, fname, MakeSerializable(scraped_data))
    /\ pc' = "ckpt_open"
    /\ atFlush' = FALSE
    /\ UNCHANGED <<discovery, reviewCalls, aborted>>
    /\ UNCHANGED <<now, ckptFile, merged, errorLog, observed, hist, result, stable,
                   cuts,
                   app_ids, include_reviews, save_interval, checkpoint, scraped_ids,
                   remaining_ids, idx, app_data, scraped_data, final, fname>>

\* checkpoint['scraped_app_ids'] = list(scraped_ids), then save_checkpoint up
\* to open(self.checkpoint_file, 'w'), which truncates the file (lines
\* 125-126 / 136-137, 33).
CkptOpen ==
    /\ pc = "ckpt_open"
    /\ checkpoint' = UpdatedCheckpoint(checkpoint, scraped_ids)
    /\ ckptFile' = [st |-> "partial", data |-> EmptyCheckpoint]
    /\ pc' = "ckpt_write"
    /\ atFlush' = FALSE
    /\ UNCHANGED <<discovery, reviewCalls, aborted>>
    /\ UNCHANGED <<now, batches, merged, errorLog, observed, hist, result, stable,
                   cuts,
                   app_ids, include_reviews, save_interval, scraped_ids,
                   remaining_ids, idx, app_data, scraped_data, final, fname>>

\* save_checkpoint, json.dump and close (line 34); in the loop the
\* accumulator is then cleared (line 127), after the loop the run is over.
CkptWrite ==
    /\ pc = "ckpt_write"
    /\ ckptFile' = [st |-> "complete", data |-> checkpoint]
    /\ UNCHANGED <<discovery, reviewCalls, aborted>>
    /\ UNCHANGED <<now, batches, merged, errorLog, observed, runs, fetches, rested, job,
                   loaded, fetched, okIds, exhausted, written, last, prev,
                   result, stable, cuts>>
    /\ IF final
       THEN /\ exit' = "done"
            /\ atFlush' = FALSE
            /\ IdleFrame
       ELSE /\ scraped_data' = << >>
            /\ pc' = "pace"
            /\ atFlush' = TRUE
            /\ UNCHANGED <<exit, app_ids, include_reviews, save_interval, checkpoint,
                           scraped_ids, remaining_ids, idx, app_data, final, fname>>

\* time.sleep(1.2) and the step of the for loop (lines 129, 108); after the
\* last identifier, the test of line 132 chooses between the final batch
\* and the final checkpoint.
Pace ==
    /\ pc = "pace"
    /\ now' = now + pacing_seconds
    /\ atFlush' = FALSE
    /\ UNCHANGED <<discovery, reviewCalls, aborted>>
    /\ UNCHANGED <<disk, observed, hist, result, stable, cuts,
                   app_ids, include_reviews, save_interval, checkpoint, scraped_ids,
                   remaining_ids, app_data, scraped_data, fname>>
    /\ IF idx + 1 < Len(remaining_ids)
       THEN /\ idx' = idx + 1
            /\ pc' = "fetch"
            /\ UNCHANGED final
       ELSE /\ final' = TRUE
            /\ pc' = IF HasRemainder(scraped_data) THEN "batch_open" ELSE "ckpt_open"
            /\ UNCHANGED idx

\* The process is stopped (killed, power loss) at any step of a run: the
\* frame is gone, the directory stays as it is.
Stop ==
    /\ pc # "idle"
    /\ exit' = "crash"
    /\ cuts' = IF atFlush /\ cuts # "other" THEN "afterflush" ELSE "other"
    /\ atFlush' = FALSE
    /\ IdleFrame
    /\ UNCHANGED <<discovery, reviewCalls, aborted>>
    /\ UNCHANGED <<now, disk, observed, runs, fetches, rested, job, loaded, fetched, okIds,
                   exhausted, written, last, prev, result, stable>>

\* Time passes between two runs: the next run starts in a later second.
\* File names are compared for equality only, so one second stands for any
\* longer pause.
Tick ==
    /\ pc = "idle"
    /\ runs > 0
    /\ ~rested
    /\ rested' = TRUE
    /\ now' = now + 1
    /\ UNCHANGED <<discovery, reviewCalls, aborted>>
    /\ UNCHANGED <<disk, frame, runs, fetches, job, loaded, fetched, okIds, exhausted,
                   written, last, exit, prev, resume, observed>>

\* os.listdir gives the batch files in no particular order.
Listings(files) ==
    { s \in [1..Cardinality(DOMAIN files) -> DOMAIN files] :
        \A i, j \in 1..Cardinality(DOMAIN files) : i # j => s[i] # s[j] }

RECURSIVE Extend(_, _, _)
\* all_data.extend(data) for the files of listing l from position i on
Extend(files, l, i) ==
    IF i > Len(l) THEN << >> ELSE files[l[i]].data \o Extend(files, l, i + 1)

\* merge_batches (lines 169-188): list the batch files, load each (json.load
\* raises on a file that is not completely written), concatenate, write the
\* merged file.  The CSV projection of lines 192-200 is not modelled.
MergeBatches(listing) ==
    /\ pc = "idle"
    /\ DOMAIN batches # {}
    /\ \A n \in DOMAIN batches : batches[n].complete
    /\ merged' = [written |-> TRUE,
                  data |-> MakeSerializable(Extend(batches, listing, 1))]
    /\ UNCHANGED <<now, ckptFile, batches, errorLog, frame, hist, resume, observed>>
    /\ UNCHANGED <<discovery, reviewCalls, aborted>>

\* A second process (get_statistics, or any reader of the checkpoint) calls
\* load_checkpoint while a run is under way.
ConcurrentLoad ==
    /\ observed' = load_checkpoint(ckptFile)
    /\ UNCHANGED <<now, disk, frame, hist, resume>>
    /\ UNCHANGED <<discovery, reviewCalls, aborted>>

\* -------------------------------------------------------------- discovery
\* What search(category, n_hits=apps_per_category) does for one query: it
\* raises, or returns a list of at most n_hits results, in which an
\* identifier may occur more than once.
Hits == UNION { [1..n -> 1..NumFound] : n \in 0..MaxHits }
SearchOutcomes ==
    { [raised |-> TRUE, results |-> << >>] } \cup
    { [raised |-> FALSE, results |-> h] : h \in Hits }

\* Mutant of AddResults: the set is assigned instead of added to.
AddResultsReplace(all, results) == Range(results)

\* for result in results: all_app_ids.add(result['appId'])
AddResults(all, results) == all \cup Range(results)

\* Mutant of AfterQuery: the try encloses the loop, a raising search() ends it.
AfterQueryAbort(raised, i, n) ==
    IF raised \/ i + 1 >= n THEN "return" ELSE "search"

\* the step of `for category in categories` after the i-th query (from 0);
\* the except clause lies inside the loop, so a raising search() goes on too
AfterQuery(raised, i, n) ==
    IF i + 1 < n THEN "search" ELSE "return"

\* identifiers that occur more than once in a result list
Twice(results) ==
    { results[i] : i \in { j \in 1..Len(results) :
                              \E l \in 1..Len(results) : l # j /\ results[l] = results[j] } }

\* list(all_app_ids): the elements of the set, each once, in any order
Orderings(set) ==
    { l \in [1..Cardinality(set) -> set] :
        \A i, j \in 1..Cardinality(set) : i # j => l[i] # l[j] }

\* discover_apps_by_categories is called with n categories (lines 71-74)
DiscoverStart(n) ==
    /\ d_pc = "idle"
    /\ pc = "idle"
    /\ runs = 0
    /\ n_categories' = n
    /\ qidx' = 0
    /\ all_app_ids' = {}
    /\ d_pc' = IF n > 0 THEN "search" ELSE "return"
    /\ UNCHANGED <<now, disk, frame, hist, resume, observed, discovered, answered,
                   repeated, failedQueries, reviewCalls, aborted>>

\* One iteration of the loop (lines 75-82): search() returns and its
\* identifiers are added, followed by the pause; or it raises and the
\* failure is logged.
Search(out) ==
    /\ d_pc = "search"
    /\ qidx' = qidx + 1
    /\ d_pc' = AfterQuery(out.raised, qidx, n_categories)
    /\ IF out.raised
       THEN /\ errorLog' = Append(errorLog, LogLine("search", qidx + 1))
            /\ failedQueries' = failedQueries \cup {qidx + 1}
            /\ UNCHANGED <<now, all_app_ids, answered, repeated>>
       ELSE /\ all_app_ids' = AddResults(all_app_ids, out.results)
            /\ now' = now + search_pause
            /\ answered' = answered \cup Range(out.results)
            /\ repeated' = repeated \cup Twice(out.results)
                                    \cup (answered \cap Range(out.results))
            /\ UNCHANGED <<errorLog, failedQueries>>
    /\ UNCHANGED <<ckptFile, batches, merged, frame, hist, resume, observed,
                   n_categories, discovered, reviewCalls, aborted>>

\* return list(all_app_ids) (line 84)
DiscoverReturn(order) ==
    /\ d_pc = "return"
    /\ discovered' = order
    /\ d_pc' = "returned"
    /\ UNCHANGED <<now, disk, frame, hist, resume, observed, n_categories, qidx,
                   all_app_ids, answered, repeated, failedQueries, reviewCalls,
                   aborted>>

\* identifiers of the records of a list
AppIds(data) == { data[i].appId : i \in 1..Len(data) }

\* A write of _save_batch or save_checkpoint raises (open or json.dump: no
\* space, no permission, a value json cannot encode).  Neither function nor
\* batch_scrape_apps catches it (lines 124-126, 133-137, 153-154, 33-34):
\* the run ends with the exception.  The failed call writes nothing; what an
\* earlier open() has truncated stays truncated.
PersistFails ==
    /\ pc \in {"batch_open", "batch_write", "ckpt_open", "ckpt_write"}
    /\ aborted' = [at |-> pc, unwritten |-> AppIds(scraped_data)]
    /\ exit' = "error"
    /\ atFlush' = FALSE
    /\ IdleFrame
    /\ UNCHANGED <<now, disk, observed, runs, fetches, rested, job, loaded, fetched,
                   okIds, exhausted, written, last, prev, result, stable, cuts,
                   discovery, reviewCalls>>

\* One job (an identifier list, include_reviews, save_interval) run again
\* and again, stopped and started again, against a source without transient
\* failures.  No operation of the scraper reads the merged file, so what
\* follows a merge is what follows without it: a behaviour ends with its
\* merges.  merge_batches is called after batch_scrape_apps has returned (the
\* script's phase 3).
Next ==
    \/ /\ runs < MaxRuns
       /\ ~merged.written
       /\ \E ids \in Inputs, reviews \in BOOLEAN, interval \in 1..MaxInterval :
              /\ runs > 0 => <<ids, reviews, interval>> = job
              /\ StartRun(ids, reviews, interval)
    \/ (fetches < MaxFetches /\ \E k \in Steady : FetchDetail(k))
    \/ \E ok \in BOOLEAN : FetchReviews(ok)
    \/ BatchOpen
    \/ BatchWrite
    \/ CkptOpen
    \/ CkptWrite
    \/ Pace
    \/ Stop
    \/ (~merged.written /\ Tick)
    \/ (exit \in {"done", "noop"} /\ \E l \in Listings(batches) : MergeBatches(l))

Spec == Init /\ [][Next]_vars

\* One run over a long identifier list, against a source with transient
\* failures.
NextLong ==
    \/ /\ runs < 1
       /\ \E ids \in LongInputs, reviews \in BOOLEAN, interval \in 1..MaxInterval :
              StartRun(ids, reviews, interval)
    \/ \E k \in Failures : FetchDetail(k)
    \/ \E ok \in BOOLEAN : FetchReviews(ok)
    \/ BatchOpen
    \/ BatchWrite
    \/ CkptOpen
    \/ CkptWrite
    \/ Pace

SpecLong == Init /\ [][NextLong]_vars

\* One run with a concurrent reader of the checkpoint file.
NextReader ==
    \/ /\ runs < 1
       /\ \E ids \in Inputs, reviews \in BOOLEAN, interval \in 1..MaxInterval :
              StartRun(ids, reviews, interval)
    \/ \E k \in Steady : FetchDetail(k)
    \/ \E ok \in BOOLEAN : FetchReviews(ok)
    \/ BatchOpen
    \/ BatchWrite
    \/ CkptOpen
    \/ CkptWrite
    \/ Pace
    \/ ConcurrentLoad

SpecReader == Init /\ [][NextReader]_vars

\* The script (lines 212-239): discovery, then one run over what it
\* returned, with writes that can fail.
NextPipeline ==
    \/ \E n \in 0..MaxQueries : DiscoverStart(n)
    \/ \E out \in SearchOutcomes : Search(out)
    \/ \E order \in Orderings(all_app_ids) : DiscoverReturn(order)
    \/ /\ d_pc = "returned"
       /\ runs < 1
       /\ \E reviews \in BOOLEAN, interval \in 1..MaxInterval :
              StartRun(discovered, reviews, interval)
    \/ \E k \in Steady : FetchDetail(k)
    \/ \E ok \in BOOLEAN : FetchReviews(ok)
    \/ BatchOpen
    \/ BatchWrite
    \/ CkptOpen
    \/ CkptWrite
    \/ Pace
    \/ PersistFails

SpecPipeline == Init /\ [][NextPipeline]_vars

\* every identifier of the job is in the completed set of a readable
\* checkpoint: a further run of the job returns at line 101
JobDone ==
    /\ runs > 0
    /\ ~load_checkpoint(ckptFile).raised
    /\ Range(job[1]) \subseteq load_checkpoint(ckptFile).value.scraped_app_ids

\* The steps of a process that is not stopped, and the operator who starts
\* the job again after every stop and every return, as long as the
\* checkpoint does not list every identifier of the job.  A run that ended
\* with the exception of load_checkpoint is not repeated: it has changed
\* nothing, and every further run ends in the same way.
Progress ==
    \/ /\ runs < MaxRuns + 1
       /\ ~JobDone
       /\ exit # "error"
       /\ \E ids \in Inputs, reviews \in BOOLEAN, interval \in 1..MaxInterval :
              /\ runs > 0 => <<ids, reviews, interval>> = job
              /\ StartRun(ids, reviews, interval)
    \/ \E k \in Steady : (k = 0 \/ runs < MaxRuns) /\ FetchDetail(k)
    \/ \E ok \in BOOLEAN : FetchReviews(ok)
    \/ BatchOpen
    \/ BatchWrite
    \/ CkptOpen
    \/ CkptWrite
    \/ Pace

\* A job run to its end: the runs before the MaxRuns-th can be stopped and
\* can meet identifiers whose fetch fails terminally; from the MaxRuns-th on
\* every fetch succeeds and nothing stops the process.
NextLive ==
    \/ Progress
    \/ (runs < MaxRuns /\ Stop)
    \/ Tick

\* The process takes its next step unless it is stopped, and the job is
\* started again after every stop.
SpecLive == Init /\ [][NextLive]_vars /\ WF_vars(Progress)

\* ================================================================ claims
\* what a reader of the checkpoint file gets now
Persisted == load_checkpoint(ckptFile)

\* identifiers that have a record in a completely written batch file among
\* the files `names`
Flushed(names) ==
    UNION { { batches[n].data[i].appId : i \in 1..Len(batches[n].data) } :
            n \in { m \in names \cap DOMAIN batches : batches[m].complete } }

\* C1: a run invokes the detail fetch only for identifiers of its input that
\* are not in the completed set it loaded; a run that follows a normally
\* ended run without failed identifiers, over the same identifiers, fetches
\* nothing, writes no batch file and leaves the persisted completed set as
\* it was.
C1_SkipCompleted ==
    /\ fetched \subseteq (Range(job[1]) \ loaded)
    /\ (runs >= 2 /\ prev.exit \in {"done", "noop"} /\ prev.exhausted = {}) =>
          /\ fetched = {}
          /\ written = {}
          /\ ~Persisted.raised
          /\ Persisted.value.scraped_app_ids = prev.completed

C1_Witness ==
    /\ runs >= 2
    /\ prev.exit = "done"
    /\ prev.exhausted = {}
    /\ Cardinality(prev.completed) >= 2
    /\ exit = "noop"

\* C3: when a run ends normally, the persisted completed set is the loaded
\* one united with exactly the identifiers fetched successfully in this run,
\* and each of these has a record in a batch file this run wrote.
C3_NothingLeftInMemory ==
    (pc = "idle" /\ exit \in {"done", "noop"}) =>
        /\ ~Persisted.raised
        /\ Persisted.value.scraped_app_ids = loaded \cup okIds
        /\ okIds \subseteq Flushed(written)

C3_Witness ==
    /\ pc = "idle"
    /\ exit = "done"
    /\ loaded # {}
    /\ Cardinality(okIds) >= 2
    /\ exhausted = {}

\* C4: scrape_app_safely invokes app() at most max_attempts = 3 times and
\* never again after a success; a source that fails twice then succeeds
\* gives success after exactly 3 invocations and 2 backoff sleeps; a source
\* that always fails gives exactly 3 invocations, the value None, one line
\* in the error log and no sleep after the last attempt.
C4_RetryBound ==
    fetches > 0 =>
        /\ last.calls <= 3
        /\ last.ret # NoneRec => last.calls = last.k + 1
        /\ last.k = 2 => (last.ret # NoneRec /\ last.calls = 3 /\ Len(last.waits) = 2)
        /\ last.k = 3 => /\ last.ret = NoneRec
                         /\ last.calls = 3
                         /\ Len(last.waits) = 2
                         /\ last.logged

C4_Witness ==
    /\ last.k = 2
    /\ last.ret # NoneRec
    /\ last.calls = 3
    /\ Len(last.waits) = 2
    /\ now >= 3

\* records of a sequence, as a set
Records(data) == { data[i] : i \in 1..Len(data) }

\* C5: an identifier whose detail fetch failed on every attempt gets no
\* record, is added to the failed set of the checkpoint (persisted as
\* failed_app_ids) and not to completed, and the run goes on.
C5_FailedRecorded ==
    (pc = "idle" /\ exit = "done") =>
        \A id \in exhausted :
            /\ id \notin Flushed(written)
            /\ id \notin Persisted.value.scraped_app_ids
            /\ id \in Persisted.value.failed_app_ids

\* the batch files in the order of their creation (of their names)
RECURSIVE CreationOrder(_)
CreationOrder(names) ==
    IF names = {} THEN << >>
    ELSE LET first == CHOOSE n \in names : \A m \in names : n <= m
         IN  <<first>> \o CreationOrder(names \ {first})

RECURSIVE KeepFirst(_, _)
\* data without the records whose identifier occurred before (in `seen`)
KeepFirst(data, seen) ==
    IF data = << >> THEN << >>
    ELSE IF Head(data).appId \in seen THEN KeepFirst(Tail(data), seen)
    ELSE <<Head(data)>> \o KeepFirst(Tail(data), seen \cup {Head(data).appId})

\* C6: the merged file holds at most one record per identifier, the one of
\* the batch file created first: it is the concatenation of the batch files
\* in creation order, first occurrence kept.
C6_MergeDedup ==
    merged.written =>
        /\ \A i, j \in 1..Len(merged.data) :
               i # j => merged.data[i].appId # merged.data[j].appId
        /\ merged.data = KeepFirst(Extend(batches, CreationOrder(DOMAIN batches), 1), {})

\* ceil(n / f)
CeilDiv(n, f) == (n + f - 1) \div f

\* C7: a run with n successful fetches and flush interval f writes exactly
\* ceil(n / f) batch files, each of f records except possibly the last, also
\* when failed identifiers lie between the successful ones.
C7_FlushCadence ==
    (pc = "idle" /\ exit = "done") =>
        LET f == job[3]
            order == CreationOrder(written)
        IN  /\ Cardinality(written) = CeilDiv(Cardinality(okIds), f)
            /\ \A i \in 1..Len(order) :
                   i < Len(order) => Len(batches[order[i]].data) = f
            /\ \A i \in 1..Len(order) : Len(batches[order[i]].data) <= f

\* C8: the accumulator of unflushed records never holds more than
\* flush_interval records, whatever the pattern of successes and failures.
C8_AccumulatorBound ==
    pc # "idle" => Len(scraped_data) <= save_interval

\* C9: in every reachable state, also after a stop at any step, every
\* identifier of the persisted completed set has its record in a completely
\* written batch file.
C9_CheckpointBackedByBatch ==
    ~Persisted.raised =>
        Persisted.value.scraped_app_ids \subseteq Flushed(DOMAIN batches)

\* the corpus of an uninterrupted run of the job against the same source:
\* the record of every identifier of the job whose fetch succeeds
ExpectedCorpus ==
    { result[id] : id \in { i \in Range(job[1]) : result[i] \notin {Unknown, Failed} } }

\* C2: when a run of a job is interrupted right after a flush (batch file
\* written, checkpoint persisted) and the job is started again, the corpus
\* merged after it has ended is, as a mapping from identifier to record, the
\* corpus of a run that was never interrupted, the source answering the same
\* for every identifier.
C2_ResumeEqualsUninterrupted ==
    (merged.written /\ stable /\ cuts \in {"none", "afterflush"}) =>
        Records(merged.data) = ExpectedCorpus

\* The part of C2 without interruption, which holds.
C2_UninterruptedCorpus ==
    (merged.written /\ stable /\ cuts = "none") =>
        Records(merged.data) = ExpectedCorpus

\* C11: when the job is started again after every stop and the fetch of
\* every identifier succeeds in the end, every run ends, and from some point
\* on every identifier of the job is in the persisted completed set and has
\* a record in a completely written batch file (so an identifier that failed
\* terminally in one run has been fetched again by a later one).
C11_EventualCompletion ==
    <>[](/\ pc = "idle"
         /\ JobDone
         /\ Range(job[1]) \subseteq Flushed(DOMAIN batches))

\* The part of C11 that holds: a run that returns after fetching every
\* remaining identifier successfully leaves every identifier of the job in
\* the persisted completed set.
C11_CompleteAfterCleanRun ==
    (pc = "idle" /\ exit = "done" /\ exhausted = {}) => JobDone

\* C12: the list discover_apps_by_categories returns holds every identifier
\* that a successful search() returned exactly once, however many queries
\* returned it and however often one query did.
C12_DiscoveryDedup ==
    d_pc = "returned" =>
        \A id \in answered :
            Cardinality({ i \in 1..Len(discovered) : discovered[i] = id }) = 1

C12_Witness ==
    /\ d_pc = "returned"
    /\ qidx = 2
    /\ failedQueries = {}
    /\ \E id \in repeated : id \in Range(discovered)
    /\ Len(discovered) >= 2

\* C13: a search() that raises does not end the discovery (every query is
\* made) and a terminally failed identifier does not end the run (a run that
\* returns has fetched every remaining identifier); a write of a batch file
\* or of the checkpoint that raises ends the run with the exception, and
\* after a failed batch write the persisted checkpoint lists none of the
\* identifiers of the batch that was not written.
C13_ErrorPropagation ==
    /\ d_pc \in {"return", "returned"} => qidx = n_categories
    /\ (pc = "idle" /\ exit = "done") => fetched = Range(job[1]) \ loaded
    /\ aborted.at # "-" => (pc = "idle" /\ exit = "error")
    /\ aborted.at \in {"batch_open", "batch_write"} =>
           /\ ~Persisted.raised
           /\ Persisted.value.scraped_app_ids \cap aborted.unwritten = {}

C13_Witness ==
    /\ failedQueries = {1}
    /\ Len(discovered) >= 2
    /\ exhausted # {}
    /\ aborted.at = "batch_write"
    /\ aborted.unwritten # {}

\* C14, as claimed: the wait after failed attempt k (from 1) of
\* scrape_app_safely is base^k, 2 seconds after the first failed attempt and
\* 4 after the second.
C14_BackoffAsClaimed ==
    fetches > 0 =>
        /\ \A k \in 1..Len(last.waits) : last.waits[k] = Pow(2, k)
        /\ Len(last.waits) >= 1 => last.waits[1] = 2
        /\ Len(last.waits) >= 2 => last.waits[2] = 4

\* C14, amended: the wait after failed attempt k (from 1, k < max_attempts)
\* is base^(k - 1) with base = 2: 1 second after the first failed attempt
\* and 2 after the second; there is one wait per failed attempt but the last.
C14_Backoff ==
    fetches > 0 =>
        /\ \A k \in 1..Len(last.waits) : last.waits[k] = Pow(2, k - 1)
        /\ Len(last.waits) >= 1 => last.waits[1] = 1
        /\ Len(last.waits) >= 2 => last.waits[2] = 2
        /\ Len(last.waits) = last.calls - 1

C14_Witness ==
    /\ fetches > 0
    /\ last.k = retries
    /\ last.ret = NoneRec
    /\ last.waits = <<1, 2>>

\* failed invocations of app() in a scrape_app_safely call
FailedAttempts(call) ==
    IF call.ret = NoneRec THEN call.calls ELSE call.calls - 1

\* C15: every failed attempt of a fetch, intermediate or final, appends one
\* line to the error log: a scrape_app_safely call with j failed attempts
\* makes the log j lines longer; and no step changes or removes a line the
\* log already has.
C15_EveryFailureLogged ==
    [][/\ Len(errorLog') >= Len(errorLog)
       /\ SubSeq(errorLog', 1, Len(errorLog)) = errorLog
       /\ fetches' = fetches + 1 =>
              Len(errorLog') = Len(errorLog) + FailedAttempts(last')]_vars

\* C16: with include_reviews, the reviews fetch of a successfully fetched
\* identifier goes through the Retry Policy, so it is given up (the record
\* gets an empty review list) only after max_attempts invocations of
\* reviews(); and the record with the empty list still joins the
\* accumulator and the identifier the completed set, not the failed one.
C16_ReviewsRetried ==
    [][(pc = "reviews" /\ pc' \in {"pace", "batch_open"}
            /\ app_data'.scraped_reviews = "empty") =>
          /\ reviewCalls' = retries
          /\ scraped_data' = Append(scraped_data, app_data')
          /\ app_data'.appId \in scraped_ids'
          /\ app_data'.appId \notin checkpoint'.failed_app_ids]_vars

\* The part of C16 about the record, which holds.
C16_ReviewsFailureKeepsRecord ==
    [][(pc = "reviews" /\ pc' \in {"pace", "batch_open"}
            /\ app_data'.scraped_reviews = "empty") =>
          /\ scraped_data' = Append(scraped_data, app_data')
          /\ app_data'.appId \in scraped_ids'
          /\ app_data'.appId \notin checkpoint'.failed_app_ids]_vars

\* the identifiers the checkpoint file lists as completed, as failed
Completed == ckptFile.data.scraped_app_ids
FailedSet == ckptFile.data.failed_app_ids

\* C17: over any sequence of runs, stopped or not, no step takes an
\* identifier out of the completed set of the persisted checkpoint, and no
\* identifier is in its completed and in its failed set.
C17_CompletedGrows ==
    /\ [][Completed \subseteq Completed']_vars
    /\ [](Completed \cap FailedSet = {})

\* The part of C17 that holds: every completely written checkpoint lists the
\* completed set the run loaded, and lists no identifier as completed and
\* failed.
C17_GrowsBetweenCompleteSaves ==
    (ckptFile.st = "complete" /\ runs > 0) =>
        /\ loaded \subseteq Completed
        /\ Completed \cap FailedSet = {}

\* the batch files a flush has completely written
Artifacts == { n \in DOMAIN batches : batches[n].complete }

\* C18: every flush creates its batch file under a name no batch file
\* written before has, also when two flushes fall into the same second (the
\* last flush of one run and the first of the next); so no step of a flush,
\* of a later run or of a merge changes a batch file written earlier.
C18_FreshBatchName ==
    [][/\ (pc = "batch_open" /\ pc' = "batch_write") => fname' \notin Artifacts
       /\ \A n \in Artifacts :
              n \in DOMAIN batches' /\ batches'[n] = batches[n]]_vars

\* C10: a load_checkpoint that runs between the steps of a save_checkpoint
\* returns a completely persisted state, never an empty or partly written
\* one.
C10_AtomicSave ==
    ~observed.raised

====
